---- MODULE Spec2Model ----
(***************************************************************************)
(* SLABatMon: a sealed-lead-acid battery monitor for an Arduino Nano.      *)
(*                                                                         *)
(* The repository holds three sketches:                                    *)
(*   SLABatMon-v3.ino  the current monitor (calibration in every cycle,    *)
(*                     CRC8 on the console stream, watchdog)               *)
(*   SLABatMon.ino     the first release (calibration once, in setup)      *)
(*   AV33Tests.ino     the 3.3v reference test sketch (5 s cycles)         *)
(*                                                                         *)
(* Each sketch is a setup() followed by loop() called for ever.  One call  *)
(* of loop() is one action; the clock (millis) and the analog and digital  *)
(* inputs are the environment.                                             *)
(*                                                                         *)
(* Specifications:                                                         *)
(*   Spec        SLABatMon-v3.ino: setup, loop, hang, watchdog reset       *)
(*   SpecStartup the same over the first seconds, the watchdog fair        *)
(*   SpecHealthy the same with calls of at most 200 ms and no hang         *)
(*   SpecWrap    the same around the wrap of the millisecond clock         *)
(*   SpecV1      SLABatMon.ino: setup, loop                                *)
(*   SpecAV33    AV33Tests.ino: setup, loop, with a window observed        *)
(*   SpecADC     getADCReading applied to eight conversions                *)
(*   SpecAcquire Job 1 applied to the conversions of the five channels     *)
(*   SpecCRC     calcCRC8 applied to a NUL terminated character array      *)
(*   SpecFrame   sendConsoleData called repeatedly on the shared txBuffer  *)
(*   SpecLCD     showLCDVoltage applied to a voltage                       *)
(*   SpecPeriod  showLCDPeriodData applied to a counter value              *)
(*   SpecCounter SLABatMon-v3.ino over its first three acquisition cycles  *)
(*   SpecCheck   calcCRC8 applied to a string, and once more to a copy     *)
(*               with one bit changed or with the checksum behind it       *)
(*                                                                         *)
(* Numbers.  unsigned long is 32 bits wide and wraps.  The model checker's *)
(* integers are 32 bit signed, so an unsigned long is kept as the signed   *)
(* integer with the same 32 bits: 0 .. 2^31 - 1 as themselves, and         *)
(* 2^31 .. 2^32 - 1 as -2^31 .. -1 (ULAdd, ULSub, ULGeq).  The floats of   *)
(* the sketches are modelled as exact rationals [n |-> num, d |-> den]:    *)
(* the sketches only divide a constant by a sample, multiply and print     *)
(* with two decimals, so the rational and the float agree in every printed *)
(* digit except where the exact value lies within a float rounding error   *)
(* (1e-7 relative) of a rounding boundary.  Text is a sequence of byte     *)
(* values (character codes).                                               *)
(***************************************************************************)
EXTENDS Integers, Sequences, FiniteSets, TLC

(***************************************************************************)
(* Program constants.                                                      *)
(***************************************************************************)
ADCREADYDELAY  == 5
ADCSAMPLES     == 8
ADCSAMPLEDELAY == 1
\* a mutant: the highest conversion value in place of the number of levels.
ADCLEVELSLess  == 1024 - 1
ADCLEVELS      == 1024
VDIVRATIO      == 3
TXBUFFERMAX    == 32
JOB1CYCLE      == 300000
JOB3CYCLE      == 1000
\* a mutant: Job 2 with the period of Job 3.
JOB2CYCLEShort == JOB3CYCLE
JOB2CYCLE      == 300000
\* a mutant: the heartbeat with the period of Job 3.
JOB9CYCLESlow  == JOB3CYCLE
JOB9CYCLE      == 500
AV33JOB1CYCLE  == 5000
AV33JOB2CYCLE  == 5000
AV33JOB9CYCLE  == 500
ADCMAXVALUE    == 1023
WDTTIMEOUT     == 1000
FIELDSIZE      == 8

\* AVREF is 3.3: kept as the rational 33/10.
AVREF == [n |-> 33, d |-> 10]

\* unsigned long arithmetic is modulo 2^32, on the signed integers with the
\* same bits.  IntMax is 2^31 - 1.
IntMax == 2147483647

\* a + k for 0 <= k < 2^31.
ULAdd(a, k) ==
  IF a > IntMax - k THEN ((a - IntMax) + (k - IntMax)) - 2 ELSE a + k

\* a - b.
ULSub(a, b) ==
  IF a >= 0 /\ b < 0 /\ a - IntMax > b THEN ((a - IntMax) - (b + IntMax)) - 2
  ELSE IF a < 0 /\ b >= 0 /\ (a + IntMax) + 1 < b THEN ((a + IntMax) - (b - IntMax)) + 2
  ELSE a - b

\* a >= c as unsigned values, for a constant 0 <= c < 2^31.
ULGeq(a, c) == a < 0 \/ a >= c

(***************************************************************************)
(* Character codes.                                                        *)
(***************************************************************************)
NUL   == 0
chSp  == 32
chCom == 44
chDsh == 45
chDot == 46
ch0   == 48
chd   == 100
chh   == 104
chm   == 109

(***************************************************************************)
(* Rationals standing for the sketches' floats.                            *)
(***************************************************************************)
Rat(num, den) == [n |-> num, d |-> den]
RatMulInt(a, k) == Rat(a.n * k, a.d)
\* constant / sample: the division of loop()'s calibration.
RatDivInt(a, k) == Rat(a.n, a.d * k)
RatLt(a, b)   == a.n * b.d < b.n * a.d

\* The value in hundredths, rounded half away from zero: what a print with two
\* decimals shows.
Hundredths(v) ==
  IF v.n >= 0 THEN (200 * v.n + v.d) \div (2 * v.d)
              ELSE 0 - ((200 * (0 - v.n) + v.d) \div (2 * v.d))

RECURSIVE Digits(_)
Digits(k) == IF k < 10 THEN <<ch0 + k>> ELSE Digits(k \div 10) \o <<ch0 + (k % 10)>>

\* printf's %0<w>d for a natural number.
ZeroPad(k, w) ==
  LET ds == Digits(k)
  IN  [i \in 1 .. (IF Len(ds) < w THEN w - Len(ds) ELSE 0) |-> ch0] \o ds

\* A number with exactly two decimals, sign first.
\* (A division by zero gives an infinity, printed as "inf".)
TwoDecimals(v) ==
  IF v.d = 0 THEN <<105, 110, 102>>
  ELSE LET h == Hundredths(v)
           a == IF h < 0 THEN 0 - h ELSE h
       IN  (IF h < 0 THEN <<chDsh>> ELSE <<>>)
             \o Digits(a \div 100) \o <<chDot>> \o ZeroPad(a % 100, 2)

\* avr-libc dtostrf(val, width, 2, buf): two decimals, right-justified in at
\* least width characters.
dtostrf(v, width) ==
  LET s == TwoDecimals(v)
  IN  [i \in 1 .. (IF Len(s) < width THEN width - Len(s) ELSE 0) |-> chSp] \o s

\* Print::print(double): two decimals, no padding.
printFloat(v) == TwoDecimals(v)

(***************************************************************************)
(* getADCReading: the average of ADCSAMPLES conversions.                   *)
(* adcTotal is a float that holds halves exactly (it stays below 2^13), so *)
(* it is kept here as twice its value.                                     *)
(***************************************************************************)
RECURSIVE adcTotal2(_, _)
adcTotal2(conv, counter) ==
  IF counter >= ADCSAMPLES THEN 0
  ELSE (2 * conv[counter + 1] + 1) + adcTotal2(conv, counter + 1)

\* a mutant: the final + 0.5 is left out (plain truncation of the biased mean).
getADCReadingNoRound(conv) == adcTotal2(conv, 0) \div (2 * ADCSAMPLES)

\* adcAverage = (adcTotal / ADCSAMPLES) + 0.5, truncated to int.
getADCReading(conv) ==
  (adcTotal2(conv, 0) + ADCSAMPLES) \div (2 * ADCSAMPLES)

\* The time one getADCReading call blocks, in ms.
ADCReadTime == ADCREADYDELAY + ADCSAMPLES * ADCSAMPLEDELAY

(***************************************************************************)
(* calcCRC8: the CRC8 of a NUL terminated character array.                 *)
(***************************************************************************)
RECURSIVE Xor(_, _)
Xor(a, b) ==
  IF a = 0 THEN b
  ELSE IF b = 0 THEN a
  ELSE ((a + b) % 2) + 2 * Xor(a \div 2, b \div 2)

\* a mutant: the feedback polynomial with one bit wrong (0x8D).
crcPolyWrong == 140 + 1

crcPoly == 140

\* a mutant: currentByte is not shifted, its lowest bit is used eight times.
RECURSIVE crcByteNoShift(_, _, _)
crcByteNoShift(chksumCRC8, currentByte, bitCounter) ==
  IF bitCounter >= 8 THEN chksumCRC8
  ELSE LET sum     == Xor(chksumCRC8, currentByte) % 2
           shifted == chksumCRC8 \div 2
           next    == IF sum # 0 THEN Xor(shifted, crcPoly) ELSE shifted
       IN  crcByteNoShift(next, currentByte, bitCounter + 1)

\* The inner for loop: the eight bits of currentByte, least significant first.
RECURSIVE crcByte(_, _, _)
crcByte(chksumCRC8, currentByte, bitCounter) ==
  IF bitCounter >= 8 THEN chksumCRC8
  ELSE LET sum     == Xor(chksumCRC8, currentByte) % 2
           shifted == chksumCRC8 \div 2
           next    == IF sum # 0 THEN Xor(shifted, crcPoly) ELSE shifted
       IN  crcByte(next, currentByte \div 2, bitCounter + 1)

\* The outer while loop: bytes from position i up to the first NUL.  mem is the
\* memory from dataBuffer on; a NUL is always found in it.
RECURSIVE crcScan(_, _, _)
crcScan(mem, i, chksumCRC8) ==
  IF mem[i] = NUL THEN chksumCRC8
  ELSE CHOOSE r \in { crcScan(mem, i + 1, c) : c \in {crcByte(chksumCRC8, mem[i], 0)} } : TRUE

calcCRC8(mem) == crcScan(mem, 1, 0)

\* The C string held at the start of mem: the bytes before the first NUL.
RECURSIVE CString(_)
CString(mem) ==
  IF mem = <<>> \/ Head(mem) = NUL THEN <<>> ELSE <<Head(mem)>> \o CString(Tail(mem))

(***************************************************************************)
(* The state.                                                              *)
(***************************************************************************)
VARIABLES
  pc,             \* "setup": setup() has not run yet; "loop": loop() is being called;
                  \* "hung": a call of loop() does not return
  clock,          \* what millis() returns now
  timeMark1,      \* last time Job 1 was executed
  timeMark2,      \* last time Job 2 was executed
  timeMark3,      \* last time Job 3 was executed
  timeMark9,      \* last time Job 9 was executed
  hbStatus,       \* heartbeat LED status
  blStatus,       \* LCD backlight status
  adcReadCounter, \* the number of ADC reads
  adcFactor,      \* SLABatMon.ino only: the global calibration factor
  txBuffer,       \* the transmit data buffer, TXBUFFERMAX + 1 bytes
  serial,         \* the latest line printed to the console
  lcd,            \* the text of the display's time and voltage fields
  wdt,            \* the watchdog: enabled or not, and the time of its last reset
  \* history, for stating the claims: written, never read, by the sketch's actions
  jobTrace,       \* the jobs the latest loop() call ran, in the order they ran
  fireNow,        \* per job: the timeNow of its latest execution (-1: none yet)
  acq,            \* the latest acquisition cycle (Job 1)
  rep,            \* the latest report (Job 2)
  bklgt,          \* the latest call of loop(): the level Job 3 polled, if it ran,
                  \* and the backlight driver calls it made
  win,            \* an observation window over the clock and the fires counted in it
  \* the functions on their own
  adcIn, adcOut,  \* getADCReading: the conversions and the result
  crcIn, crcOut,  \* calcCRC8: the memory read and the result
  sent,           \* sendConsoleData: the calls so far, each [vals, line]
  bVoltage,       \* showLCDVoltage: the value to show
  crcChk          \* calcCRC8 once more: the memory read and the result

schedVars == <<pc, clock, timeMark1, timeMark2, timeMark3, timeMark9,
               hbStatus, blStatus, adcReadCounter, wdt>>
dataVars  == <<adcFactor, txBuffer, serial, lcd>>
histVars  == <<jobTrace, fireNow, acq, rep, bklgt>>
funVars   == <<adcIn, adcOut, crcIn, crcOut, sent, bVoltage, crcChk>>
vars      == <<schedVars, dataVars, histVars, win, funVars>>

Jobs == {1, 2, 3, 9}

None == [n |-> 0, d |-> 0]

NoAcq == [cycle |-> 0, at |-> -1, raw |-> <<>>, refConv |-> <<>>, factorRef |-> 0,
          factorCycle |-> -1, vals |-> <<>>]
NoRep == [count |-> 0, at |-> -1, vals |-> <<>>, counter |-> 0]
NoPoll == [polled |-> <<>>, calls |-> <<>>]
NoChk == [mem |-> <<>>, crc |-> -1]
NoWin == [open |-> FALSE, start |-> 0, end |-> 0, count |-> [j \in Jobs |-> 0]]

(***************************************************************************)
(* Model bounds and the environment's inputs.                              *)
(***************************************************************************)
\* The time between two clock reads, beyond the blocking ADC delays, is Step or
\* twice Step.
Step == 250
\* The clock value up to which the monitor sketches are followed: the first
\* acquisition cycle and the iterations after it.
MaxTime == 301500

Elapse == {Step, 2 * Step}

\* Eight conversions of one channel.
Steady(v) == [k \in 1 .. ADCSAMPLES |-> v]
Ripple(v) == [k \in 1 .. ADCSAMPLES |-> IF k % 2 = 0 THEN v + 1 ELSE v]

\* The conversions of one acquisition cycle: <<reference, battery 1 .. 4>>.
AdcScenes ==
  { <<Steady(681), Steady(899), Steady(899), Ripple(845), Steady(803)>>,
    <<Steady(681), Steady(0), Steady(ADCMAXVALUE), Ripple(899), Steady(1)>>,
    <<Steady(0), Steady(0), Steady(0), Steady(0), Steady(0)>>,
    <<Steady(0), Steady(899), Steady(899), Steady(899), Steady(899)>>,
    <<Steady(0), Steady(ADCMAXVALUE), Steady(0), Steady(0), Steady(0)>> }
NoScene == <<>>

\* What loop()'s uninitialised float locals may hold when they are read without
\* having been assigned in the same call.
Indeterminate ==
  { [i \in 1 .. 5 |-> Rat(0, 1)], [i \in 1 .. 5 |-> Rat(0 - 1, 1)] }

(***************************************************************************)
(* The scheduler's due check and mark update.                              *)
(***************************************************************************)
\* a mutant: a strict comparison.
DueStrict(now, mark, cycle) == ULGeq(ULSub(now, mark), cycle + 1)

\* a mutant: timeNow >= timeMark + JOBnCYCLE, in unsigned long arithmetic.
DueNoWrap(now, mark, cycle) ==
  LET due == ULAdd(mark, cycle)
  IN  (now < 0 /\ due >= 0) \/ ((now < 0) = (due < 0) /\ now >= due)

\* timeNow - timeMark >= JOBnCYCLE, in unsigned long arithmetic.
Due(now, mark, cycle) == ULGeq(ULSub(now, mark), cycle)

\* a mutant: the mark is left as it was.
NextMarkStale(now, mark, cycle) == mark

\* a mutant: the mark advances by the period (a delayed job catches up).
NextMarkCatchUp(now, mark, cycle) == ULAdd(mark, cycle)

\* timeMark = timeNow.
NextMark(now, mark, cycle) == now

(***************************************************************************)
(* Job 3: the backlight follows the level of the control input.            *)
(***************************************************************************)
\* a mutant: the driver is called at every poll.
backlightCallsAlways(level, status) ==
  IF level THEN <<"backlight">> ELSE <<"noBacklight">>

\* The driver calls Job 3 makes when it polls level while it tracks status.
backlightCalls(level, status) ==
  IF level
  THEN (IF ~status THEN <<"backlight">> ELSE <<>>)
  ELSE (IF status THEN <<"noBacklight">> ELSE <<>>)

(***************************************************************************)
(* Job 1 of SLABatMon-v3: calibration and the four battery voltages.       *)
(***************************************************************************)
\* raw: the readings <<reference, battery 1 .. 4>>; the result: adcRef50v and
\* myVoltsB1 .. myVoltsB4.
voltages(raw) ==
  LET adcOneLvl == RatDivInt(AVREF, raw[1])
      adcRef50v == RatMulInt(adcOneLvl, ADCLEVELS)
      adcFact   == RatMulInt(adcOneLvl, VDIVRATIO)
  IN  <<adcRef50v>> \o [k \in 1 .. 4 |-> RatMulInt(adcFact, raw[k + 1])]

acquire(scene) ==
  LET raw == [k \in 1 .. 5 |-> getADCReading(scene[k])]
  IN  [ raw  |-> raw,
        \* the reference sample the factor in use was derived from
        factorRef |-> raw[1],
        vals |-> voltages(raw) ]

(***************************************************************************)
(* sendConsoleData.                                                        *)
(***************************************************************************)
CRLF == <<13, 10>>

Join5(f) ==
  f[1] \o <<chCom>> \o f[2] \o <<chCom>> \o f[3] \o <<chCom>> \o f[4] \o <<chCom>> \o f[5]

\* sprintf(txBuffer, ...): the bytes of text and a NUL; the bytes of the buffer
\* behind them keep what they held.  Only the part inside the buffer is returned.
sprintf(tx, text) ==
  [i \in 1 .. TXBUFFERMAX + 1 |->
     IF i <= Len(text) THEN text[i] ELSE IF i = Len(text) + 1 THEN NUL ELSE tx[i]]

\* The five strings as the locals bRefStr, b1VStr .. b4VStr hold them when
\* sprintf reads them.  A string of FIELDSIZE characters or more does not fit its
\* array: its NUL is written past the end (undefined behaviour), which may
\* leave the locals intact or may empty a local that was written before it.
fieldViews(fields) ==
  {fields} \cup
  { [fields EXCEPT ![j] = <<>>] :
      j \in {j \in 1 .. 5 : \E k \in (j + 1) .. 5 : Len(fields[k]) >= FIELDSIZE} }

\* The memory behind txBuffer as calcCRC8 or Serial.print finds it.  A text of
\* TXBUFFERMAX characters or less ends inside the buffer.  A longer one is
\* written past the end of the buffer (undefined behaviour): the bytes there may
\* still hold the rest of the text or may have been overwritten.
beyond(text) ==
  IF Len(text) <= TXBUFFERMAX THEN {<<NUL>>}
  ELSE { SubSeq(text, TXBUFFERMAX + 2, Len(text)) \o <<NUL>>, <<NUL>> }

\* The outcomes of one call: the buffer afterwards and the line printed.
sendConsoleData(vals, tx) ==
  LET fields == [i \in 1 .. 5 |-> dtostrf(vals[i], 4)]
  IN  UNION { LET text == Join5(fv)
                  buf  == sprintf(tx, text)
              IN  { [ tx   |-> buf,
                      line |-> CString(buf \o pv) \o <<chCom>>
                                 \o Digits(calcCRC8(buf \o cv)) \o CRLF ] :
                      cv \in beyond(text), pv \in beyond(text) }
            : fv \in fieldViews(fields) }

(***************************************************************************)
(* The display.                                                            *)
(***************************************************************************)
Dashes == <<chDsh, chDsh, chDot, chDsh, chDsh>>

showLCDVoltage(v) ==
  IF v.d # 0 /\ v.n >= 0 /\ RatLt(v, Rat(100, 1))
  THEN (IF RatLt(v, Rat(10, 1)) THEN <<ch0>> ELSE <<>>) \o printFloat(v)
  ELSE Dashes

\* ADCREADPERIOD is JOB1CYCLE / 60000.0: a float, here the whole number 5.
ADCREADPERIOD == JOB1CYCLE \div 60000

\* A float has a significand of 24 bits: the whole numbers below FloatExact
\* are floats, above it only every second, fourth, ... is.
FloatExact == 2 ^ 24

RECURSIVE FloatUlp(_)
FloatUlp(k) == IF k < FloatExact THEN 1 ELSE 2 * FloatUlp(k \div 2)

\* The float nearest to the whole number k >= 0 (a tie goes to the even
\* significand): the conversion of an unsigned long, and the rounding of a
\* product.
FloatOf(k) ==
  LET u == FloatUlp(k)
      q == k \div u
      r == k % u
  IN  IF 2 * r < u THEN q * u
      ELSE IF 2 * r > u THEN (q + 1) * u
      ELSE (IF q % 2 = 0 THEN q ELSE q + 1) * u

\* totalMins = adcReadCounter * ADCREADPERIOD: the counter is converted to
\* float, multiplied, and the product converted back to unsigned long.
showLCDPeriodData(counter) ==
  LET totalMins == FloatOf(FloatOf(counter) * ADCREADPERIOD)
      pMins     == totalMins % 60
      pHours    == (totalMins \div 60) % 24
      pDays     == ((totalMins \div 60) \div 24) % 1000
  IN  ZeroPad(pDays, 3) \o <<chd, chSp>> \o ZeroPad(pHours, 2) \o <<chh, chSp>>
        \o ZeroPad(pMins, 2) \o <<chm>>

showLCDBatteryData(vals) == [k \in 1 .. 4 |-> showLCDVoltage(vals[k + 1])]

\* showLCDStaticData: "---d --h --m" and four times "--.--".
StaticTime == <<chDsh, chDsh, chDsh, chd, chSp, chDsh, chDsh, chh, chSp, chDsh, chDsh, chm>>
showLCDStaticData == [time |-> StaticTime, volts |-> [k \in 1 .. 4 |-> Dashes], light |-> TRUE]

(***************************************************************************)
(* History kept for the claims.                                            *)
(***************************************************************************)
\* The jobs that ran, in the order loop() runs them.
Trace(fire1, fire2, fire3, fire9) ==
  (IF fire1 THEN <<1>> ELSE <<>>) \o (IF fire2 THEN <<2>> ELSE <<>>)
    \o (IF fire3 THEN <<3>> ELSE <<>>) \o (IF fire9 THEN <<9>> ELSE <<>>)

Ran(trace) == {trace[i] : i \in 1 .. Len(trace)}

\* The window after a loop() call that read the clock at now and ran the jobs
\* of trace.
Counted(w, now, trace) ==
  IF w.open
  THEN [w EXCEPT !.end = now,
                 !.count = [j \in Jobs |-> IF j \in Ran(trace) THEN @[j] + 1 ELSE @[j]]]
  ELSE w

(***************************************************************************)
(* SLABatMon-v3.ino                                                        *)
(***************************************************************************)
\* The labels line setup() prints:
\* "ADCRef50v,Battery-1,Battery-2,Battery-3,Battery-4,CRC8".
Header ==
  <<65, 68, 67, 82, 101, 102, 53, 48, 118, 44, 66, 97, 116, 116, 101, 114,
    121, 45, 49, 44, 66, 97, 116, 116, 101, 114, 121, 45, 50, 44, 66, 97,
    116, 116, 101, 114, 121, 45, 51, 44, 66, 97, 116, 116, 101, 114, 121, 45,
    52, 44, 67, 82, 67, 56, 13, 10>>

SchedInit ==
  /\ clock = 0
  /\ timeMark1 = 0 /\ timeMark2 = 0 /\ timeMark3 = 0 /\ timeMark9 = 0
  /\ hbStatus = FALSE
  /\ blStatus = TRUE
  /\ adcReadCounter = 0
  /\ wdt = [on |-> FALSE, kick |-> 0]

DataInit ==
  /\ adcFactor = None
  /\ txBuffer = [i \in 1 .. TXBUFFERMAX + 1 |-> NUL]
  /\ serial = <<>>
  /\ lcd = [time |-> <<>>, volts |-> [k \in 1 .. 4 |-> <<>>], light |-> FALSE]

HistInit ==
  /\ jobTrace = <<>>
  /\ fireNow = [j \in Jobs |-> -1]
  /\ acq = NoAcq
  /\ rep = NoRep
  /\ bklgt = NoPoll
  /\ win = NoWin

FunInit ==
  /\ adcIn = <<>> /\ adcOut = -1
  /\ crcIn = <<>> /\ crcOut = -1
  /\ sent = <<>>
  /\ bVoltage = None
  /\ crcChk = NoChk

Init == pc = "setup" /\ SchedInit /\ DataInit /\ HistInit /\ FunInit

\* The watchdog, once enabled, restarts the controller when WDTTIMEOUT ms have
\* passed since it was enabled or last reset.  Expired(t): it has done so by
\* the clock value t.
Expired(t) == wdt.on /\ ULGeq(ULSub(t, wdt.kick), WDTTIMEOUT)

\* setup(): the pins, the console, the display's static text, the header line,
\* and the watchdog, enabled last.
setup(e) ==
  /\ pc = "setup"
  /\ pc' = "loop"
  /\ clock' = ULAdd(clock, e)
  /\ lcd' = showLCDStaticData
  /\ serial' = Header
  /\ wdt' = [on |-> TRUE, kick |-> ULAdd(clock, e)]
  /\ UNCHANGED <<timeMark1, timeMark2, timeMark3, timeMark9, hbStatus,
                 blStatus, adcReadCounter, adcFactor, txBuffer, histVars, win,
                 funVars>>

\* One call of loop().  e: the time the call takes beyond the ADC delays;
\* scene: the conversions, read if Job 1 runs; level: digitalRead(BKLGTCTL),
\* read if Job 3 runs; junk: the uninitialised locals.
loop(e, scene, level, junk) ==
  /\ pc = "loop"
  /\ LET timeNow == clock
         fire1   == Due(timeNow, timeMark1, JOB1CYCLE)
         fire2   == Due(timeNow, timeMark2, JOB2CYCLE)
         fire3   == Due(timeNow, timeMark3, JOB3CYCLE)
         fire9   == Due(timeNow, timeMark9, JOB9CYCLE)
         a       == acquire(scene)
         vals    == IF fire1 THEN a.vals ELSE junk
         counter == IF fire1 THEN ULAdd(adcReadCounter, 1) ELSE adcReadCounter
         \* the five getADCReading calls of Job 1 block
         fin     == ULAdd(timeNow, (IF fire1 THEN 5 * ADCReadTime ELSE 0) + e)
         trace   == Trace(fire1, fire2, fire3, fire9)
         calls   == IF fire3 THEN backlightCalls(level, blStatus) ELSE <<>>
     IN  \* the call returns only if the watchdog has not expired meanwhile
         /\ ~Expired(fin)
         /\ clock' = fin
         /\ timeMark1' = IF fire1 THEN NextMark(timeNow, timeMark1, JOB1CYCLE) ELSE timeMark1
         /\ timeMark2' = IF fire2 THEN NextMark(timeNow, timeMark2, JOB2CYCLE) ELSE timeMark2
         /\ timeMark3' = IF fire3 THEN NextMark(timeNow, timeMark3, JOB3CYCLE) ELSE timeMark3
         /\ timeMark9' = IF fire9 THEN NextMark(timeNow, timeMark9, JOB9CYCLE) ELSE timeMark9
         /\ adcReadCounter' = counter
         /\ IF fire2
            THEN \E o \in sendConsoleData(vals, txBuffer) :
                   /\ txBuffer' = o.tx
                   /\ serial' = o.line
                   /\ rep' = [count |-> rep.count + 1, at |-> timeNow, vals |-> vals,
                              counter |-> counter]
            ELSE UNCHANGED <<txBuffer, serial, rep>>
         /\ lcd' = [ time  |-> IF fire2 THEN showLCDPeriodData(counter) ELSE lcd.time,
                     volts |-> IF fire2 THEN showLCDBatteryData(vals) ELSE lcd.volts,
                     light |-> IF calls # <<>> THEN level ELSE lcd.light ]
         \* blStatus is assigned next to the driver call only
         /\ blStatus' = IF calls # <<>> THEN level ELSE blStatus
         /\ bklgt' = IF fire3 THEN [polled |-> <<level>>, calls |-> calls] ELSE NoPoll
         /\ hbStatus' = IF fire9 THEN ~hbStatus ELSE hbStatus
         \* cerberous.reset(), at the end of the call
         /\ wdt' = IF fire9 THEN [wdt EXCEPT !.kick = fin] ELSE wdt
         /\ jobTrace' = trace
         /\ fireNow'  = [j \in Jobs |-> IF j \in Ran(trace) THEN timeNow ELSE fireNow[j]]
         /\ acq' = IF fire1
                   THEN [cycle |-> counter, at |-> timeNow, raw |-> a.raw,
                         refConv |-> scene[1], factorCycle |-> counter,
                         factorRef |-> a.factorRef, vals |-> a.vals]
                   ELSE acq
         /\ UNCHANGED <<pc, adcFactor, win, funVars>>

\* The inputs a call of loop() reads.
ScenesRead == IF Due(clock, timeMark1, JOB1CYCLE) THEN AdcScenes ELSE {NoScene}
LevelsRead == IF Due(clock, timeMark3, JOB3CYCLE) THEN BOOLEAN ELSE {blStatus}
JunkRead ==
  IF Due(clock, timeMark2, JOB2CYCLE) /\ ~Due(clock, timeMark1, JOB1CYCLE)
  THEN Indeterminate ELSE {<<>>}

\* A call of loop() does not come to Job 9's watchdog reset in time: a job or a
\* peripheral call in it blocks, or the call is too slow.
hang ==
  /\ pc = "loop"
  /\ pc' = "hung"
  /\ UNCHANGED <<clock, timeMark1, timeMark2, timeMark3, timeMark9, hbStatus, blStatus,
                 adcReadCounter, wdt, dataVars, histVars, win, funVars>>

\* a mutant: the watchdog lets the interrupted call of loop() go on.
watchdogResume ==
  /\ pc = "hung"
  /\ wdt.on
  /\ pc' = "loop"
  /\ wdt' = [wdt EXCEPT !.kick = clock]
  /\ UNCHANGED <<clock, timeMark1, timeMark2, timeMark3, timeMark9, hbStatus, blStatus,
                 adcReadCounter, dataVars, histVars, win, funVars>>

\* The watchdog expires: the controller restarts cold.  The console and the
\* display are devices of their own and keep what they show.
watchdogReset ==
  /\ pc = "hung"
  /\ wdt.on
  /\ pc' = "setup"
  /\ clock' = 0
  /\ timeMark1' = 0 /\ timeMark2' = 0 /\ timeMark3' = 0 /\ timeMark9' = 0
  /\ hbStatus' = FALSE
  /\ blStatus' = TRUE
  /\ adcReadCounter' = 0
  /\ txBuffer' = [i \in 1 .. TXBUFFERMAX + 1 |-> NUL]
  /\ wdt' = [on |-> FALSE, kick |-> 0]
  /\ jobTrace' = <<>>
  /\ fireNow' = [j \in Jobs |-> -1]
  /\ acq' = NoAcq
  /\ rep' = NoRep
  /\ bklgt' = NoPoll
  /\ win' = NoWin
  /\ UNCHANGED <<adcFactor, serial, lcd, funVars>>

Next ==
  \/ \E e \in Elapse : setup(e)
  \/ \E e \in Elapse : \E scene \in ScenesRead : \E level \in LevelsRead :
       \E junk \in JunkRead : loop(e, scene, level, junk) /\ clock' <= MaxTime
  \/ hang
  \/ watchdogReset

Spec == Init /\ [][Next]_vars

(***************************************************************************)
(* The scheduler of SLABatMon-v3.ino.                                      *)
(***************************************************************************)
timeMark(j) ==
  CASE j = 1 -> timeMark1 [] j = 2 -> timeMark2 [] j = 3 -> timeMark3 [] j = 9 -> timeMark9

JOBCYCLE(j) ==
  CASE j = 1 -> JOB1CYCLE [] j = 2 -> JOB2CYCLE [] j = 3 -> JOB3CYCLE [] j = 9 -> JOB9CYCLE

\* A step that is one call of loop(): the clock it read is the unprimed clock,
\* the jobs it ran are jobTrace'.
LoopCall == pc = "loop" /\ pc' = "loop" /\ clock' # clock

\* C1: in every call of loop() each job runs if and only if the clock read at
\* the start of the call is at least the job's period past the job's time
\* mark; a job that runs sets its mark to exactly that clock value, a job that
\* does not run keeps its mark, and no job runs twice in one call.  (The clock
\* stays below 2^31 here, where the unsigned difference is the plain one.)
C1_DueCheck ==
  [][LoopCall =>
       /\ \A j \in Jobs :
            /\ (j \in Ran(jobTrace')) <=> (clock - timeMark(j) >= JOBCYCLE(j))
            /\ timeMark(j)' = IF j \in Ran(jobTrace') THEN clock ELSE timeMark(j)
       /\ Len(jobTrace') = Cardinality(Ran(jobTrace'))]_vars

\* Jobs 3 and 9 ran in the call that read the clock exactly one Job 3 period
\* after start (Job 9 for the second time), Jobs 1 and 2 did not run.
C1_Witness ==
  /\ jobTrace = <<3, 9>>
  /\ timeMark3 = JOB3CYCLE /\ timeMark9 = JOB3CYCLE
  /\ fireNow[3] = timeMark3 /\ fireNow[9] = timeMark9
  /\ timeMark1 = 0 /\ timeMark2 = 0

\* C2: the clock values read by two consecutive executions of a job are at
\* least the job's period apart, also after an execution that was late.
C2_MinSpacing ==
  [][LoopCall =>
       \A j \in Jobs :
         (j \in Ran(jobTrace') /\ fireNow[j] # -1) => clock - fireNow[j] >= JOBCYCLE(j)]_vars

\* Job 9 was not due in the call in which Job 1 ran, became due while Job 1's
\* five readings blocked, and ran in the first call after them: later than
\* due.
C2_Witness ==
  /\ 9 \in Ran(jobTrace)
  /\ fireNow[1] >= JOB1CYCLE
  /\ fireNow[9] > fireNow[1]
  /\ fireNow[9] - fireNow[1] < JOB9CYCLE

\* C4: Jobs 1 and 2 run in the same calls of loop(), Job 1 first, so the time
\* marks are equal and what Job 2 reports and displays are the values Job 1
\* computed in the same call.
C4_SameIteration ==
  /\ timeMark1 = timeMark2
  /\ (1 \in Ran(jobTrace)) <=> (2 \in Ran(jobTrace))
  /\ 2 \in Ran(jobTrace) => jobTrace[1] = 1 /\ jobTrace[2] = 2
  /\ rep.count = acq.cycle
  /\ rep.at = acq.at
  /\ rep.vals = acq.vals
  /\ rep.count > 0 => lcd.volts = showLCDBatteryData(acq.vals)

\* The call that ran Job 1 and then Job 2: the first report.
C4_Witness ==
  /\ Len(jobTrace) >= 2 /\ jobTrace[1] = 1 /\ jobTrace[2] = 2
  /\ rep.count = 1 /\ rep.at = fireNow[1] /\ rep.at >= JOB1CYCLE
  /\ Len(rep.vals) = 5

\* C6: in a cycle whose reference channel reads zero (every conversion 0) no
\* new factor is derived: the voltages are not computed from this cycle's
\* reference reading.
C6_ZeroReferenceGuarded ==
  (acq.cycle > 0 /\ acq.refConv = Steady(0)) =>
     (acq.factorCycle < acq.cycle /\ acq.vals # voltages(acq.raw))

(***************************************************************************)
(* getADCReading on its own: eight conversions in, the reading out.        *)
(***************************************************************************)
\* The conversion values tried: both rails and their neighbours.
ADCTried == {0, 1, ADCMAXVALUE - 1, ADCMAXVALUE}

InitADC ==
  /\ pc = "getADCReading"
  /\ SchedInit /\ DataInit /\ HistInit
  /\ adcIn \in [1 .. ADCSAMPLES -> ADCTried]
  /\ adcOut = -1
  /\ crcIn = <<>> /\ crcOut = -1
  /\ sent = <<>>
  /\ bVoltage = None
  /\ crcChk = NoChk

callGetADCReading ==
  /\ pc = "getADCReading"
  /\ pc' = "returned"
  /\ adcOut' = getADCReading(adcIn)
  /\ UNCHANGED <<clock, timeMark1, timeMark2, timeMark3, timeMark9, hbStatus, blStatus,
                 adcReadCounter, wdt, dataVars, histVars, win, adcIn, crcIn, crcOut, sent,
                 bVoltage, crcChk>>

NextADC == callGetADCReading

SpecADC == InitADC /\ [][NextADC]_vars

RECURSIVE SumTo(_, _)
SumTo(conv, k) == IF k = 0 THEN 0 ELSE conv[k] + SumTo(conv, k - 1)

\* C7 as stated: the reading is in 0 .. ADCMAXVALUE, and a channel stuck at a
\* rail reads the rail.
C7_WithinRange ==
  pc = "returned" =>
    /\ adcOut \in 0 .. ADCMAXVALUE
    /\ adcIn = Steady(0) => adcOut = 0
    /\ adcIn = Steady(ADCMAXVALUE) => adcOut = ADCMAXVALUE

\* What getADCReading returns: the whole part of the conversions' mean, plus
\* one; a channel stuck at v reads v + 1.
ADCReadingIsMeanPlusOne ==
  pc = "returned" =>
    /\ adcOut = (SumTo(adcIn, ADCSAMPLES) \div ADCSAMPLES) + 1
    /\ adcOut \in 1 .. ADCMAXVALUE + 1
    /\ \A v \in ADCTried : adcIn = Steady(v) => adcOut = v + 1

(***************************************************************************)
(* calcCRC8 on its own: a character array in, the CRC8 out.                *)
(***************************************************************************)
\* The longest string tried.
MaxStrLen == 3
\* The bytes tried: digits, '.', ',', and bytes with the low or high bit set.
CRCBytes == {1, chCom, chDot, ch0, ch0 + 1, ch0 + 9, 128, 255}
\* What the memory holds behind the terminator.
CRCTails == {<<>>, <<ch0 + 1, chCom, NUL>>}

CRCStrings == UNION {[1 .. n -> CRCBytes] : n \in 0 .. MaxStrLen}

InitCRC ==
  /\ pc = "calcCRC8"
  /\ SchedInit /\ DataInit /\ HistInit
  /\ adcIn = <<>> /\ adcOut = -1
  /\ crcIn \in {str \o <<NUL>> \o tail : str \in CRCStrings, tail \in CRCTails}
  /\ crcOut = -1
  /\ sent = <<>>
  /\ bVoltage = None
  /\ crcChk = NoChk

callCalcCRC8 ==
  /\ pc = "calcCRC8"
  /\ pc' = "returned"
  /\ crcOut' = calcCRC8(crcIn)
  /\ UNCHANGED <<clock, timeMark1, timeMark2, timeMark3, timeMark9, hbStatus, blStatus,
                 adcReadCounter, wdt, dataVars, histVars, win, adcIn, adcOut, crcIn, sent,
                 bVoltage, crcChk>>

NextCRC == callCalcCRC8

SpecCRC == InitCRC /\ [][NextCRC]_vars

\* CRC-8 Dallas/Maxim computed another way: the message as a polynomial over
\* GF(2), first transmitted bit (bit 0 of the first byte) as the highest power,
\* times x^8, reduced modulo x^8 + x^5 + x^4 + 1.
RECURSIVE BitsLSB(_, _)
BitsLSB(byte, n) == IF n = 0 THEN <<>> ELSE <<byte % 2>> \o BitsLSB(byte \div 2, n - 1)

RECURSIVE MsgBits(_)
MsgBits(str) == IF str = <<>> THEN <<>> ELSE BitsLSB(Head(str), 8) \o MsgBits(Tail(str))

Generator == <<1, 0, 0, 1, 1, 0, 0, 0, 1>>

RECURSIVE PolyMod(_)
PolyMod(bits) ==
  IF Len(bits) < 9 THEN bits
  ELSE IF bits[1] = 0 THEN PolyMod(Tail(bits))
  ELSE PolyMod(Tail([k \in 1 .. Len(bits) |->
                       IF k <= 9 THEN (bits[k] + Generator[k]) % 2 ELSE bits[k]]))

RECURSIVE Pack(_, _)
Pack(bits, k) == IF k > Len(bits) THEN 0 ELSE bits[k] + 2 * Pack(bits, k + 1)

RefCRC(str) ==
  LET r   == PolyMod(MsgBits(str) \o <<0, 0, 0, 0, 0, 0, 0, 0>>)
      pad == [k \in 1 .. (8 - Len(r)) |-> 0] \o r
  IN  Pack(pad, 1)

\* C8: calcCRC8 of a NUL terminated string is the CRC-8 Dallas/Maxim of the
\* bytes before the terminator, whatever follows it; it is in 0 .. 255, and 0
\* for the empty string.
C8_MatchesReference ==
  pc = "returned" =>
    /\ crcOut = RefCRC(CString(crcIn))
    /\ crcOut \in 0 .. 255
    /\ CString(crcIn) = <<>> => crcOut = 0

\* A string of MaxStrLen bytes with other bytes behind its terminator has been
\* checksummed, and the checksum is not zero.
C8_Witness ==
  /\ pc = "returned"
  /\ Len(CString(crcIn)) = MaxStrLen
  /\ Len(crcIn) > MaxStrLen + 1
  /\ crcOut > 0

(***************************************************************************)
(* sendConsoleData on its own: calls one after the other, each with the    *)
(* voltages of one acquisition cycle, on the buffer the call before left.  *)
(***************************************************************************)
\* The number of calls followed.
MaxFrames == 3

\* The readings <<reference, battery 1 .. 4>> tried: getADCReading results of
\* a healthy monitor, and of one whose reference channel reads zero.
FrameReadings ==
  { <<682, 900, 900, 846, 804>>,
    <<682, 1, ADCMAXVALUE + 1, 900, 2>>,
    <<1, 1, 1, 1, 1>>,
    <<1, 900, 900, 900, 900>> }

InitFrame ==
  /\ pc = "sendConsoleData"
  /\ SchedInit /\ DataInit /\ HistInit /\ FunInit

callSendConsoleData(raw) ==
  /\ pc = "sendConsoleData"
  /\ Len(sent) < MaxFrames
  /\ \E o \in sendConsoleData(voltages(raw), txBuffer) :
       /\ txBuffer' = o.tx
       /\ serial' = o.line
       /\ sent' = Append(sent, [vals |-> voltages(raw), line |-> o.line])
  /\ UNCHANGED <<schedVars, adcFactor, lcd, histVars, win, adcIn, adcOut, crcIn, crcOut,
                 bVoltage, crcChk>>

NextFrame == \E raw \in FrameReadings : callSendConsoleData(raw)

SpecFrame == InitFrame /\ [][NextFrame]_vars

\* The value string of a frame: the five voltages with two decimals each, in
\* the order reference, battery 1 .. 4, with single commas between them.
ValueString(vals) == Join5([i \in 1 .. 5 |-> TwoDecimals(vals[i])])

\* C9: every frame sent is the value string of the voltages handed over, a
\* comma, the CRC8 of exactly that value string as a decimal number in
\* 0 .. 255, and the end of line.
C9_FrameFormat ==
  \A i \in 1 .. Len(sent) :
    LET text == ValueString(sent[i].vals)
        crc  == calcCRC8(text \o <<NUL>>)
    IN  /\ crc \in 0 .. 255
        /\ sent[i].line = text \o <<chCom>> \o Digits(crc) \o CRLF

\* C10: two calls with the same voltages send the same frame, whatever was
\* sent before them.
C10_Deterministic ==
  \A i, j \in 1 .. Len(sent) :
    sent[i].vals = sent[j].vals => sent[i].line = sent[j].line

(***************************************************************************)
(* SLABatMon.ino, the first version of the monitor: the calibration factor *)
(* is a global, computed in setup(); no checksum and no watchdog.          *)
(***************************************************************************)
\* The conversions of the reference channel during setup().
SetupScenes == {Steady(681), Steady(0)}

\* The labels line setup() prints: "Battery-1,Battery-2,Battery-3,Battery-4".
HeaderV1 ==
  <<66, 97, 116, 116, 101, 114, 121, 45, 49, 44, 66, 97, 116, 116, 101, 114,
    121, 45, 50, 44, 66, 97, 116, 116, 101, 114, 121, 45, 51, 44, 66, 97,
    116, 116, 101, 114, 121, 45, 52, 13, 10>>

\* Serial.print of the four voltages with commas between them, and the end of
\* the line.
sendConsoleDataV1(vals) ==
  printFloat(vals[1]) \o <<chCom>> \o printFloat(vals[2]) \o <<chCom>>
    \o printFloat(vals[3]) \o <<chCom>> \o printFloat(vals[4]) \o CRLF

showLCDBatteryDataV1(vals) == [k \in 1 .. 4 |-> showLCDVoltage(vals[k])]

IndeterminateV1 == { [i \in 1 .. 4 |-> Rat(0, 1)], [i \in 1 .. 4 |-> Rat(0 - 1, 1)] }

setupV1(e, refConv) ==
  /\ pc = "setup"
  /\ pc' = "loop"
  /\ clock' = ULAdd(clock, ADCReadTime + e)
  /\ lcd' = showLCDStaticData
  /\ serial' = HeaderV1
  /\ adcFactor' = RatMulInt(RatDivInt(AVREF, getADCReading(refConv)), VDIVRATIO)
  \* the factor is derived before any acquisition cycle, from this reading
  /\ acq' = [acq EXCEPT !.refConv = refConv, !.factorRef = getADCReading(refConv),
                        !.factorCycle = 0]
  /\ UNCHANGED <<timeMark1, timeMark2, timeMark3, timeMark9, hbStatus, blStatus,
                 adcReadCounter, wdt, txBuffer, jobTrace, fireNow, rep, bklgt, win, funVars>>

loopV1(e, scene, level, junk) ==
  /\ pc = "loop"
  /\ LET timeNow == clock
         fire1   == Due(timeNow, timeMark1, JOB1CYCLE)
         fire2   == Due(timeNow, timeMark2, JOB2CYCLE)
         fire3   == Due(timeNow, timeMark3, JOB3CYCLE)
         fire9   == Due(timeNow, timeMark9, JOB9CYCLE)
         raw     == [k \in 1 .. 4 |-> getADCReading(scene[k + 1])]
         fresh   == [k \in 1 .. 4 |-> RatMulInt(adcFactor, raw[k])]
         vals    == IF fire1 THEN fresh ELSE junk
         counter == IF fire1 THEN ULAdd(adcReadCounter, 1) ELSE adcReadCounter
         \* the four getADCReading calls of Job 1 block
         fin     == ULAdd(timeNow, (IF fire1 THEN 4 * ADCReadTime ELSE 0) + e)
         trace   == Trace(fire1, fire2, fire3, fire9)
         calls   == IF fire3 THEN backlightCalls(level, blStatus) ELSE <<>>
     IN  /\ fin >= 0 /\ fin <= MaxTime
         /\ clock' = fin
         /\ timeMark1' = IF fire1 THEN NextMark(timeNow, timeMark1, JOB1CYCLE) ELSE timeMark1
         /\ timeMark2' = IF fire2 THEN NextMark(timeNow, timeMark2, JOB2CYCLE) ELSE timeMark2
         /\ timeMark3' = IF fire3 THEN NextMark(timeNow, timeMark3, JOB3CYCLE) ELSE timeMark3
         /\ timeMark9' = IF fire9 THEN NextMark(timeNow, timeMark9, JOB9CYCLE) ELSE timeMark9
         /\ adcReadCounter' = counter
         /\ serial' = IF fire2 THEN sendConsoleDataV1(vals) ELSE serial
         /\ rep' = IF fire2
                   THEN [count |-> rep.count + 1, at |-> timeNow, vals |-> vals,
                         counter |-> counter]
                   ELSE rep
         /\ lcd' = [ time  |-> IF fire2 THEN showLCDPeriodData(counter) ELSE lcd.time,
                     volts |-> IF fire2 THEN showLCDBatteryDataV1(vals) ELSE lcd.volts,
                     light |-> IF calls # <<>> THEN level ELSE lcd.light ]
         /\ blStatus' = IF calls # <<>> THEN level ELSE blStatus
         /\ bklgt' = IF fire3 THEN [polled |-> <<level>>, calls |-> calls] ELSE NoPoll
         /\ hbStatus' = IF fire9 THEN ~hbStatus ELSE hbStatus
         /\ jobTrace' = trace
         /\ fireNow'  = [j \in Jobs |-> IF j \in Ran(trace) THEN timeNow ELSE fireNow[j]]
         \* the factor in use is still the one setup() derived
         /\ acq' = IF fire1
                   THEN [acq EXCEPT !.cycle = counter, !.at = timeNow, !.raw = raw,
                                    !.vals = fresh]
                   ELSE acq
         /\ UNCHANGED <<pc, adcFactor, txBuffer, wdt, win, funVars>>

JunkReadV1 ==
  IF Due(clock, timeMark2, JOB2CYCLE) /\ ~Due(clock, timeMark1, JOB1CYCLE)
  THEN IndeterminateV1 ELSE {<<>>}

NextV1 ==
  \/ \E e \in Elapse : \E refConv \in SetupScenes : setupV1(e, refConv)
  \/ \E e \in Elapse : \E scene \in ScenesRead : \E level \in LevelsRead :
       \E junk \in JunkReadV1 : loopV1(e, scene, level, junk)

SpecV1 == Init /\ [][NextV1]_vars

\* C5: the voltages of an acquisition cycle are computed with a calibration
\* factor derived in that same cycle.
C5_FactorOfSameCycle == acq.cycle > 0 => acq.factorCycle = acq.cycle

(***************************************************************************)
(* AV33Tests.ino: the reference test sketch.  Jobs 1, 2 and 9 only, with   *)
(* periods of 5 s, 5 s and 0.5 s; no watchdog.                             *)
(***************************************************************************)
\* The clock value up to which AV33Tests is followed: two acquisition cycles.
MaxTimeAV33 == 10600

AV33Jobs == {1, 2, 9}

AV33CYCLE(j) ==
  CASE j = 1 -> AV33JOB1CYCLE [] j = 2 -> AV33JOB2CYCLE [] j = 9 -> AV33JOB9CYCLE

\* The conversions of one acquisition cycle: <<reference, battery 1, battery 2>>.
AV33Scenes == { <<Steady(681), Steady(899), Ripple(845)>> }

\* What loop()'s uninitialised locals myAV33ADC, myAV50Ref, myVoltsB1 and
\* myVoltsB2 may hold.
IndeterminateAV33 == { <<0, Rat(0, 1), Rat(0, 1), Rat(0, 1)>>, <<1, Rat(1, 1), Rat(1, 1), Rat(1, 1)>> }

\* The console title setup() prints, underlined.
TitleAV33 ==
  <<65, 86, 32, 51, 46, 51, 118, 32, 82, 101, 102, 32, 84, 101, 115, 116,
    115, 13, 10, 61, 61, 61, 61, 61, 61, 61, 61, 61, 61, 61, 61, 61, 61, 61,
    61, 61, 13, 10>>

setupAV33(e) ==
  /\ pc = "setup"
  /\ pc' = "loop"
  /\ clock' = ULAdd(clock, e)
  /\ serial' = TitleAV33
  /\ UNCHANGED <<timeMark1, timeMark2, timeMark3, timeMark9, hbStatus, blStatus,
                 adcReadCounter, wdt, adcFactor, txBuffer, lcd, histVars, win, funVars>>

\* One call of loop().  open: the observer starts its window at the clock value
\* this call reads.
loopAV33(e, scene, junk, open) ==
  /\ pc = "loop"
  /\ LET timeNow   == clock
         fire1     == Due(timeNow, timeMark1, AV33JOB1CYCLE)
         fire2     == Due(timeNow, timeMark2, AV33JOB2CYCLE)
         fire9     == Due(timeNow, timeMark9, AV33JOB9CYCLE)
         myAV33ADC == getADCReading(scene[1])
         ratio     == RatDivInt(AVREF, myAV33ADC)
         myAV50Ref == RatMulInt(ratio, ADCMAXVALUE + 1)
         myVoltsB1 == RatMulInt(RatMulInt(ratio, getADCReading(scene[2])), VDIVRATIO)
         myVoltsB2 == RatMulInt(RatMulInt(ratio, getADCReading(scene[3])), VDIVRATIO)
         vals      == IF fire1 THEN <<myAV33ADC, myAV50Ref, myVoltsB1, myVoltsB2>> ELSE junk
         \* the three getADCReading calls of Job 1 block
         fin       == ULAdd(timeNow, (IF fire1 THEN 3 * ADCReadTime ELSE 0) + e)
         trace     == Trace(fire1, fire2, FALSE, fire9)
         w         == IF ~win.open /\ open
                      THEN [NoWin EXCEPT !.open = TRUE, !.start = timeNow]
                      ELSE win
     IN  /\ fin >= 0 /\ fin <= MaxTimeAV33
         /\ clock' = fin
         /\ timeMark1' = IF fire1 THEN NextMark(timeNow, timeMark1, AV33JOB1CYCLE) ELSE timeMark1
         /\ timeMark2' = IF fire2 THEN NextMark(timeNow, timeMark2, AV33JOB2CYCLE) ELSE timeMark2
         /\ timeMark9' = IF fire9 THEN NextMark(timeNow, timeMark9, AV33JOB9CYCLE) ELSE timeMark9
         \* the values printed, line by line (the labels are left out)
         /\ serial' = IF fire2
                      THEN <<Digits(vals[1]), printFloat(vals[2]), printFloat(vals[3]),
                             printFloat(vals[4])>>
                      ELSE serial
         /\ rep' = IF fire2
                   THEN [count |-> rep.count + 1, at |-> timeNow, vals |-> vals,
                         counter |-> 0]
                   ELSE rep
         /\ hbStatus' = IF fire9 THEN ~hbStatus ELSE hbStatus
         /\ jobTrace' = trace
         /\ fireNow'  = [j \in Jobs |-> IF j \in Ran(trace) THEN timeNow ELSE fireNow[j]]
         /\ acq' = IF fire1
                   THEN [cycle |-> acq.cycle + 1, at |-> timeNow,
                         raw |-> <<myAV33ADC, getADCReading(scene[2]), getADCReading(scene[3])>>,
                         refConv |-> scene[1], factorRef |-> myAV33ADC,
                         factorCycle |-> acq.cycle + 1, vals |-> vals]
                   ELSE acq
         /\ win' = Counted(w, timeNow, trace)
         /\ UNCHANGED <<pc, timeMark3, blStatus, adcReadCounter, wdt, adcFactor, txBuffer,
                        lcd, bklgt, funVars>>

ScenesReadAV33 == IF Due(clock, timeMark1, AV33JOB1CYCLE) THEN AV33Scenes ELSE {NoScene}
JunkReadAV33 ==
  IF Due(clock, timeMark2, AV33JOB2CYCLE) /\ ~Due(clock, timeMark1, AV33JOB1CYCLE)
  THEN IndeterminateAV33 ELSE {<<>>}

NextAV33 ==
  \/ \E e \in Elapse : setupAV33(e)
  \/ \E e \in Elapse : \E scene \in ScenesReadAV33 : \E junk \in JunkReadAV33 :
       \E open \in BOOLEAN : loopAV33(e, scene, junk, open)

SpecAV33 == Init /\ [][NextAV33]_vars

\* The window observed: from the clock value one call of loop() read to the
\* clock value the latest call read, both included.
WindowLength == win.end - win.start

\* The longest time from one clock read to the next.
MaxReadGap == 2 * Step + 3 * ADCReadTime

\* C3 as stated: over every window, each job runs floor(W / P) times, give or
\* take one.
C3_FloorPlusMinusOne ==
  win.open =>
    \A j \in AV33Jobs :
      /\ win.count[j] >= (WindowLength \div AV33CYCLE(j)) - 1
      /\ win.count[j] <= (WindowLength \div AV33CYCLE(j)) + 1

\* C3 amended: over every window that begins and ends at a clock read, each job
\* runs at most floor(W / P) + 1 times and at least floor(W / (P + D)) times,
\* D being the longest time from one clock read to the next.
C3_DriftingFairness ==
  win.open =>
    \A j \in AV33Jobs :
      /\ win.count[j] <= (WindowLength \div AV33CYCLE(j)) + 1
      /\ win.count[j] >= WindowLength \div (AV33CYCLE(j) + MaxReadGap)

\* A window over which Job 9, run late again and again, ran less often than
\* floor(W / P) - 1 times, and which holds an acquisition cycle as well.
C3_Witness ==
  /\ win.open
  /\ win.count[9] < (WindowLength \div AV33JOB9CYCLE) - 1
  /\ win.count[1] >= 1

(***************************************************************************)
(* The first seconds after a start of SLABatMon-v3.ino, with the watchdog  *)
(* as the hardware timer it is: once a call of loop() hangs, the timer     *)
(* runs out whatever the program does.                                     *)
(***************************************************************************)
\* The clock value up to which the first seconds are followed.
StartupTime == 4000

NextStartup ==
  \/ \E e \in Elapse : setup(e)
  \/ \E e \in Elapse : \E scene \in ScenesRead : \E level \in LevelsRead :
       \E junk \in JunkRead : loop(e, scene, level, junk) /\ clock' <= StartupTime
  \/ hang
  \/ watchdogReset

SpecStartup == Init /\ [][NextStartup]_vars /\ WF_vars(watchdogReset)

\* The state a start leaves before setup() runs.
Cold ==
  /\ pc = "setup"
  /\ clock = 0
  /\ timeMark1 = 0 /\ timeMark2 = 0 /\ timeMark3 = 0 /\ timeMark9 = 0
  /\ adcReadCounter = 0
  /\ hbStatus = FALSE /\ blStatus = TRUE
  /\ ~wdt.on

\* C11: the watchdog is enabled by setup(), as its last step, and from then on
\* re-armed only by a call of loop() that runs Job 9; from a call of loop()
\* that hangs the only way on is the restart, which leaves the cold state of a
\* start (marks 0, counter 0, setup() to run), and that restart does come.
C11_WatchdogRestart ==
  /\ [][wdt' # wdt =>
          \/ pc = "setup" /\ pc' = "loop" /\ ~wdt.on /\ wdt'.on /\ wdt'.kick = clock'
          \/ LoopCall /\ 9 \in Ran(jobTrace') /\ wdt'.on /\ wdt'.kick = clock'
          \/ pc = "hung" /\ Cold']_vars
  /\ [][pc = "loop" => wdt.on]_vars
  /\ [][pc = "hung" => Cold']_vars
  /\ (pc = "hung") ~> Cold

\* A restart has happened: the controller is in the cold state while the
\* console still holds the header line of the run before.
C11_Witness == Cold /\ serial = Header

\* C12: a call of loop() that does not run Job 3 leaves the backlight and its
\* tracked status alone.  One that runs Job 3 calls the driver exactly when the
\* level polled differs from the status tracked before, backlight() for high
\* and noBacklight() for low, and afterwards the tracked status is the level
\* polled.  Every driver call changes the backlight from what the call before
\* it (or the display's start) left, so the two calls alternate.
C12_EdgeTriggered ==
  [][LoopCall =>
       IF 3 \in Ran(jobTrace')
       THEN /\ Len(bklgt'.polled) = 1
            /\ blStatus' = bklgt'.polled[1]
            /\ bklgt'.calls =
                 IF bklgt'.polled[1] = blStatus THEN <<>>
                 ELSE IF bklgt'.polled[1] THEN <<"backlight">> ELSE <<"noBacklight">>
            /\ bklgt'.calls # <<>> =>
                 /\ (bklgt'.calls[1] = "backlight") = ~lcd.light
                 /\ lcd'.light = ~lcd.light
            /\ bklgt'.calls = <<>> => lcd'.light = lcd.light
       ELSE /\ bklgt'.calls = <<>>
            /\ blStatus' = blStatus
            /\ lcd'.light = lcd.light]_vars

\* Job 3 has just switched the backlight on again: it had switched it off
\* before, and had polled without a change in between or before.
C12_Witness ==
  /\ 3 \in Ran(jobTrace)
  /\ bklgt.calls = <<"backlight">>
  /\ blStatus /\ lcd.light
  /\ timeMark3 >= 3 * JOB3CYCLE

(***************************************************************************)
(* showLCDVoltage on its own: a voltage in, the text printed at the cursor *)
(* out (battery 1's field of the display).                                 *)
(***************************************************************************)
\* The voltages tried, in thousandths of a volt: around 0, 10 and 100, a
\* battery's voltage, and values far out of range.  Values that end in 5
\* thousandths are left out: a float does not hold them exactly, so their
\* second decimal depends on the float's last bit.
LCDThousandths ==
  { t \in ({0 - 1000, 0 - 6, 0 - 4, 13064, 150000} \cup (0 .. 14) \cup (9980 .. 10014)
             \cup (99980 .. 100014)) : t % 10 # 5 }

InitLCD ==
  /\ pc = "showLCDVoltage"
  /\ SchedInit /\ HistInit
  /\ adcFactor = None
  /\ txBuffer = [i \in 1 .. TXBUFFERMAX + 1 |-> NUL]
  /\ serial = Header
  /\ lcd = showLCDStaticData
  /\ adcIn = <<>> /\ adcOut = -1
  /\ crcIn = <<>> /\ crcOut = -1
  /\ sent = <<>>
  /\ bVoltage \in {Rat(t, 1000) : t \in LCDThousandths}
  /\ crcChk = NoChk

callShowLCDVoltage ==
  /\ pc = "showLCDVoltage"
  /\ pc' = "returned"
  /\ lcd' = [lcd EXCEPT !.volts[1] = showLCDVoltage(bVoltage)]
  /\ UNCHANGED <<clock, timeMark1, timeMark2, timeMark3, timeMark9, hbStatus, blStatus,
                 adcReadCounter, wdt, adcFactor, txBuffer, serial, histVars, win, funVars>>

NextLCD == callShowLCDVoltage

SpecLCD == InitLCD /\ [][NextLCD]_vars

IsDigit(c) == c >= ch0 /\ c <= ch0 + 9

\* C13: a value that is negative or 100 and more is shown as "--.--"; every
\* other value is shown in five characters, two digits, '.', two digits.
C13_FixedWidth ==
  pc = "returned" =>
    LET shown == lcd.volts[1]
    IN  IF bVoltage.n < 0 \/ ~RatLt(bVoltage, Rat(100, 1))
        THEN shown = Dashes
        ELSE /\ Len(shown) = 5
             /\ IsDigit(shown[1]) /\ IsDigit(shown[2]) /\ shown[3] = chDot
             /\ IsDigit(shown[4]) /\ IsDigit(shown[5])

\* What showLCDVoltage prints: "--.--" out of range; in range the value rounded
\* to two decimals, with a "0" in front when the value (not the rounded value)
\* is below 10: five characters unless the rounding carries to 10.00 or to
\* 100.00, six characters then.
LCDVoltageShown ==
  pc = "returned" =>
    LET shown == lcd.volts[1]
        h     == Hundredths(bVoltage)
    IN  IF bVoltage.n < 0 \/ ~RatLt(bVoltage, Rat(100, 1))
        THEN shown = Dashes
        ELSE Len(shown) = (IF h = 1000 /\ RatLt(bVoltage, Rat(10, 1)) THEN 6
                           ELSE IF h = 10000 THEN 6 ELSE 5)

(***************************************************************************)
(* showLCDPeriodData on its own: the counter in, the text of the display's *)
(* time field out.                                                         *)
(***************************************************************************)
\* The first counter values tried are 0 .. FirstCounters.
FirstCounters == 40

\* The counter values tried: the first hours, around one day (288 cycles),
\* around 1000 days, and around the values from which on the product, and then
\* the counter itself, is no longer a float.
CountersTried ==
  (0 .. FirstCounters)
    \cup {287, 288, 289, 287999, 288000, 288001}
    \cup {(FloatExact \div ADCREADPERIOD) + k : k \in 0 - 2 .. 3}
    \cup {FloatExact + k : k \in 0 - 1 .. 3}

InitPeriod ==
  /\ pc = "showLCDPeriodData"
  /\ clock = 0
  /\ timeMark1 = 0 /\ timeMark2 = 0 /\ timeMark3 = 0 /\ timeMark9 = 0
  /\ hbStatus = FALSE
  /\ blStatus = TRUE
  /\ adcReadCounter \in CountersTried
  /\ wdt = [on |-> TRUE, kick |-> 0]
  /\ adcFactor = None
  /\ txBuffer = [i \in 1 .. TXBUFFERMAX + 1 |-> NUL]
  /\ serial = Header
  /\ lcd = showLCDStaticData
  /\ HistInit /\ FunInit

callShowLCDPeriodData ==
  /\ pc = "showLCDPeriodData"
  /\ pc' = "returned"
  /\ lcd' = [lcd EXCEPT !.time = showLCDPeriodData(adcReadCounter)]
  /\ UNCHANGED <<clock, timeMark1, timeMark2, timeMark3, timeMark9, hbStatus, blStatus,
                 adcReadCounter, wdt, adcFactor, txBuffer, serial, histVars, win, funVars>>

NextPeriod == callShowLCDPeriodData

SpecPeriod == InitPeriod /\ [][NextPeriod]_vars

\* The readout DDDd HHh MMm of a number of minutes.
Readout(mins) ==
  ZeroPad((mins \div 1440) % 1000, 3) \o <<chd, chSp>> \o ZeroPad((mins \div 60) % 24, 2)
    \o <<chh, chSp>> \o ZeroPad(mins % 60, 2) \o <<chm>>

\* C14: for every counter value the time field is the readout of counter x 5
\* minutes, wrapped field by field, in 12 characters.
C14_PeriodReadout ==
  pc = "returned" =>
    /\ Len(lcd.time) = 12
    /\ lcd.time = Readout(adcReadCounter * 5)

\* What showLCDPeriodData shows: always 12 characters, and the readout of
\* counter x 5 minutes as long as that product is a float (up to 2^24).
PeriodReadoutShown ==
  pc = "returned" =>
    /\ Len(lcd.time) = 12
    /\ adcReadCounter * 5 <= FloatExact => lcd.time = Readout(adcReadCounter * 5)

(***************************************************************************)
(* Job 1 of SLABatMon-v3.ino on its own: the conversions of the five       *)
(* channels in, the readings and the voltages out.                         *)
(***************************************************************************)
\* The conversions tried, per channel.
RefConvs == {Steady(0), Ripple(0), Steady(1), Steady(681), Steady(ADCMAXVALUE)}
BatConvs == {Steady(0), Steady(899), Ripple(845), Steady(ADCMAXVALUE)}

AcquireScenes ==
  { <<ref, b1, b2, b3, Steady(803)>> :
      ref \in RefConvs, b1 \in BatConvs, b2 \in BatConvs, b3 \in {Steady(0), Steady(899)} }

\* The call of loop() in which Job 1 is due for the first time, in a run whose
\* calls took JOB9CYCLE ms each: Job 1's condition has just been found true.
InitAcquire ==
  /\ pc = "Job1"
  /\ clock = JOB1CYCLE
  /\ timeMark1 = 0 /\ timeMark2 = 0
  /\ timeMark3 = JOB1CYCLE - JOB3CYCLE
  /\ timeMark9 = JOB1CYCLE - JOB9CYCLE
  /\ hbStatus = TRUE
  /\ blStatus = TRUE
  /\ adcReadCounter = 0
  /\ wdt = [on |-> TRUE, kick |-> JOB1CYCLE]
  /\ adcFactor = None
  /\ txBuffer = [i \in 1 .. TXBUFFERMAX + 1 |-> NUL]
  /\ serial = Header
  /\ lcd = showLCDStaticData
  /\ jobTrace = <<9>>
  /\ fireNow = [j \in Jobs |-> IF j = 3 THEN timeMark3 ELSE IF j = 9 THEN timeMark9 ELSE -1]
  /\ acq = NoAcq
  /\ rep = NoRep
  /\ bklgt = NoPoll
  /\ win = NoWin
  /\ FunInit

\* The body of Job 1.
Job1(scene) ==
  /\ pc = "Job1"
  /\ pc' = "returned"
  /\ timeMark1' = NextMark(clock, timeMark1, JOB1CYCLE)
  /\ clock' = ULAdd(clock, 5 * ADCReadTime)
  /\ adcReadCounter' = ULAdd(adcReadCounter, 1)
  /\ LET a == acquire(scene)
     IN  acq' = [cycle |-> adcReadCounter + 1, at |-> clock, raw |-> a.raw,
                 refConv |-> scene[1], factorCycle |-> adcReadCounter + 1,
                 factorRef |-> a.factorRef, vals |-> a.vals]
  /\ UNCHANGED <<timeMark2, timeMark3, timeMark9, hbStatus, blStatus, wdt, dataVars,
                 jobTrace, fireNow, rep, bklgt, win, funVars>>

NextAcquire == \E scene \in AcquireScenes : Job1(scene)

SpecAcquire == InitAcquire /\ [][NextAcquire]_vars

\* C15: with the reference reading r and the battery readings b, the supply
\* estimate v0 and the battery voltages v satisfy v0 * r = 3.3 * 1024 and
\* v * r = 3.3 * 3 * b (so v is b times the factor 3.3 * 3 / r); with r = 682
\* and b = 900 the battery voltage is 13.06 to two decimals.
C15_Calibration ==
  pc = "returned" =>
    LET r == acq.raw[1]
    IN  /\ r > 0
        /\ acq.vals[1].d # 0
        /\ acq.vals[1].n * 10 * r = 33 * 1024 * acq.vals[1].d
        /\ \A k \in 1 .. 4 :
             LET v == acq.vals[k + 1]
                 b == acq.raw[k + 1]
             IN  /\ v.d # 0
                 /\ v.n * 10 * r = 33 * 3 * b * v.d
                 /\ (r = 682 /\ b = 900) =>
                      TwoDecimals(v) = <<ch0 + 1, ch0 + 3, chDot, ch0, ch0 + 6>>

\* The end-to-end scenario: reference reading 682, battery 1 reading 900.
C15_Witness ==
  /\ pc = "returned"
  /\ acq.raw[1] = 682 /\ acq.raw[2] = 900
  /\ acq.cycle = 1

(***************************************************************************)
(* SLABatMon-v3.ino around the wrap of the millisecond clock, 49.7 days    *)
(* after a start.  The clock values 2^32 - k just before the wrap are the  *)
(* integers -k here, so the clock runs from -WrapLead through -1 to 0 and  *)
(* on, and the difference of two of these integers is the time between     *)
(* them.                                                                   *)
(***************************************************************************)
\* The wrap is approached from WrapLead ms before it and followed until
\* WrapEnd ms after it.
WrapLead == 1500
WrapEnd  == 2500

\* The voltages and the frame of the acquisition cycle before.
WrapVals == voltages(<<682, 900, 900, 846, 804>>)

\* A state of the monitor WrapLead ms before the wrap: Job 9 is due, Job 3
\* half a period from due, Jobs 1 and 2 due shortly before or shortly after
\* the wrap; 14316 acquisition cycles have been made and the latest is shown.
InitWrap ==
  /\ pc = "loop"
  /\ clock = 0 - WrapLead
  /\ \E lead \in {WrapLead - 2 * Step, WrapLead + Step} :
       /\ timeMark1 = clock - (JOB1CYCLE - lead)
       /\ timeMark2 = timeMark1
  /\ timeMark3 = clock - (JOB3CYCLE \div 2)
  /\ timeMark9 = clock - JOB9CYCLE
  /\ hbStatus = FALSE
  /\ blStatus = TRUE
  /\ adcReadCounter = 14316
  /\ wdt = [on |-> TRUE, kick |-> clock]
  /\ adcFactor = None
  /\ \E o \in sendConsoleData(WrapVals, [i \in 1 .. TXBUFFERMAX + 1 |-> NUL]) :
       txBuffer = o.tx /\ serial = o.line
  /\ lcd = [ time  |-> showLCDPeriodData(adcReadCounter),
             volts |-> showLCDBatteryData(WrapVals),
             light |-> TRUE ]
  /\ jobTrace = <<>>
  /\ fireNow = [j \in Jobs |-> timeMark(j)]
  /\ acq = NoAcq
  /\ rep = NoRep
  /\ bklgt = NoPoll
  /\ win = NoWin
  /\ FunInit

NextWrap ==
  \E e \in Elapse : \E scene \in ScenesRead : \E level \in LevelsRead :
    \E junk \in JunkRead : loop(e, scene, level, junk) /\ clock' <= WrapEnd

SpecWrap == InitWrap /\ [][NextWrap]_vars

\* C16: in every call of loop() before, across and after the wrap, each job
\* runs if and only if the time from its mark to the clock value read is at
\* least its period, and a job that runs takes the clock value read as its
\* mark: no job runs early, and none that is due is left out.
C16_WrapSafe ==
  [][LoopCall =>
       \A j \in Jobs :
         /\ clock - timeMark(j) < JOBCYCLE(j) =>
              (j \notin Ran(jobTrace') /\ timeMark(j)' = timeMark(j))
         /\ clock - timeMark(j) >= JOBCYCLE(j) =>
              (j \in Ran(jobTrace') /\ timeMark(j)' = clock)]_vars

\* Jobs 1 and 9 have run after the wrap, each for the first time since its
\* mark from before the wrap.
C16_Witness ==
  /\ 1 \in Ran(jobTrace)
  /\ timeMark1 >= 0 /\ timeMark1 < JOB9CYCLE
  /\ timeMark9 >= 0 /\ timeMark9 < JOB9CYCLE
  /\ adcReadCounter = 14317

(***************************************************************************)
(* getADCReading: rounding, and the least reading.                         *)
(***************************************************************************)
\* C17: the reading is the mean of the eight conversions rounded to the
\* nearest whole number (it is at most a half away from the mean), and eight
\* equal conversions v read as v.  Stated for getADCReading on its own.
C17_RoundsToNearest ==
  pc = "returned" =>
    LET sum == SumTo(adcIn, ADCSAMPLES)
    IN  /\ ADCSAMPLES * adcOut - sum <= ADCSAMPLES \div 2
        /\ sum - ADCSAMPLES * adcOut <= ADCSAMPLES \div 2
        /\ \A v \in ADCTried : adcIn = Steady(v) => adcOut = v

\* C18: whatever the conversions, all zero included, no reading of an
\* acquisition cycle is 0, so the reference voltage is never divided by zero:
\* every voltage of the cycle is a number.  Stated for Job 1 on its own.
C18_NoZeroReference ==
  pc = "returned" =>
    /\ \A k \in 1 .. 5 : acq.raw[k] >= 1
    /\ acq.factorRef >= 1
    /\ \A k \in 1 .. 5 : acq.vals[k].d # 0

\* A cycle whose conversions were all zero on the reference channel and on two
\* batteries has been made: the readings are 1.
C18_Witness ==
  /\ pc = "returned"
  /\ acq.refConv = Steady(0)
  /\ acq.raw[1] = 1 /\ acq.raw[2] = 1 /\ acq.raw[3] = 1

(***************************************************************************)
(* SLABatMon-v3.ino in good health: no call hangs, and every call of       *)
(* loop() returns within MaxIteration ms, the ADC delays of Job 1 included.*)
(***************************************************************************)
\* The longest time a call of loop() takes.
MaxIteration == 200

\* The time a call takes: half of the longest, or the longest.
IterTimes == {MaxIteration \div 2, MaxIteration}

\* The part of a call's time spent in the delays of Job 1's five readings.
Blocking == IF Due(clock, timeMark1, JOB1CYCLE) THEN 5 * ADCReadTime ELSE 0

\* The run in which every call of loop() takes MaxIteration ms and the
\* backlight input stays high is followed no further than its first
\* HealthyCalls calls: the state it has reached then, shortly before the first
\* acquisition cycle.  Every(cycle) is the time between two executions of a
\* job in that run, LastRun(cycle, t) the latest execution before time t.
HealthyCalls == 1495

Every(cycle) == ((cycle + MaxIteration - 1) \div MaxIteration) * MaxIteration
LastRun(cycle, t) == ((t - 1) \div Every(cycle)) * Every(cycle)

BeforeAcquisition ==
  LET now   == HealthyCalls * MaxIteration
      last3 == LastRun(JOB3CYCLE, now)
      last9 == LastRun(JOB9CYCLE, now)
      prev  == now - MaxIteration
  IN  /\ pc = "loop"
      /\ clock = now
      /\ timeMark1 = 0 /\ timeMark2 = 0
      /\ timeMark3 = last3
      /\ timeMark9 = last9
      /\ hbStatus = ((last9 \div Every(JOB9CYCLE)) % 2 = 1)
      /\ blStatus = TRUE
      /\ adcReadCounter = 0
      /\ wdt = [on |-> TRUE, kick |-> last9 + MaxIteration]
      /\ adcFactor = None
      /\ txBuffer = [i \in 1 .. TXBUFFERMAX + 1 |-> NUL]
      /\ serial = Header
      /\ lcd = showLCDStaticData
      /\ jobTrace = Trace(FALSE, FALSE, last3 = prev, last9 = prev)
      /\ fireNow = [j \in Jobs |-> IF j = 3 THEN last3 ELSE IF j = 9 THEN last9 ELSE -1]
      /\ acq = NoAcq
      /\ rep = NoRep
      /\ bklgt = IF last3 = prev THEN [polled |-> <<TRUE>>, calls |-> <<>>] ELSE NoPoll
      /\ win = NoWin
      /\ FunInit

InitHealthy == Init \/ BeforeAcquisition

\* The calls followed: those of the first StartupTime ms after the start, and
\* those from BeforeAcquisition on.
NextHealthy ==
  \/ \E d \in IterTimes : setup(d)
  \/ \E d \in IterTimes : \E scene \in ScenesRead : \E level \in LevelsRead :
       \E junk \in JunkRead :
         /\ loop(d - Blocking, scene, level, junk)
         /\ clock' <= StartupTime \/ clock >= HealthyCalls * MaxIteration
         /\ clock' <= MaxTime

SpecHealthy == InitHealthy /\ [][NextHealthy]_vars

\* C19: while loop() is being called the watchdog is enabled and less than
\* WDTTIMEOUT ms have passed since it was enabled or last reset, and whichever
\* call comes next will have returned before the timeout; Job 9 is the last
\* job of a call, and its reset is made at the end of the call, after the
\* delays of the five readings when Job 1 ran in the same call.
C19_HealthyNeverExpires ==
  /\ pc = "loop" =>
       /\ wdt.on
       /\ clock - wdt.kick < WDTTIMEOUT
       /\ \A d \in IterTimes : ~Expired(ULAdd(clock, d))
  /\ 9 \in Ran(jobTrace) =>
       /\ jobTrace[Len(jobTrace)] = 9
       /\ wdt.kick = clock
       /\ 1 \in Ran(jobTrace) => wdt.kick - fireNow[1] >= 5 * ADCReadTime

\* The acquisition cycle has been made in a call that also ran Job 9: the
\* watchdog was reset at the end of that call.
C19_Witness ==
  /\ 1 \in Ran(jobTrace) /\ 9 \in Ran(jobTrace)
  /\ acq.cycle = 1
  /\ wdt.kick = clock
  /\ clock - fireNow[1] <= MaxIteration

(***************************************************************************)
(* sendConsoleData: the sizes of what it writes.                           *)
(***************************************************************************)
\* C20: in every call of sendConsoleData each of the five strings dtostrf
\* writes has at most FIELDSIZE - 1 characters, and the five joined by commas
\* have at most TXBUFFERMAX characters: with their terminators they fit the
\* arrays they are written to.  Stated for sendConsoleData on its own.
C20_FitsBuffers ==
  \A i \in 1 .. Len(sent) :
    LET fields == [k \in 1 .. 5 |-> dtostrf(sent[i].vals[k], 4)]
    IN  /\ \A k \in 1 .. 5 : Len(fields[k]) <= FIELDSIZE - 1
        /\ Len(Join5(fields)) <= TXBUFFERMAX

(***************************************************************************)
(* SLABatMon-v3.ino over its first acquisition cycles.  The calls of       *)
(* loop() within Margin ms of a multiple of JOB1CYCLE (the start is one)   *)
(* take Step or twice Step, as everywhere else in this module; those in    *)
(* between, in which only Jobs 3 and 9 run, take twice Step.               *)
(***************************************************************************)
\* The acquisition cycles that are followed.
CyclesFollowed == 3
\* Job 1 runs late by less than half a second per cycle: a run in which it
\* is late every time leaves the margin at the third cycle, and is followed at
\* the one pace from there.
Margin == 1000

CounterEnd == CyclesFollowed * JOB1CYCLE + Margin

NearCycle == clock % JOB1CYCLE <= Margin \/ clock % JOB1CYCLE >= JOB1CYCLE - Margin

\* The inputs a call of loop() reads here: its pace; conversions with a sound
\* reference; a backlight input that changes near a cycle only.
PaceRead   == IF NearCycle THEN Elapse ELSE {2 * Step}
SoundRead  == {scene \in ScenesRead : scene # NoScene => scene[1] = Steady(681)}
SteadyRead == IF NearCycle THEN LevelsRead ELSE {blStatus}

NextCounter ==
  \/ \E e \in Elapse : setup(e)
  \/ \E e \in PaceRead : \E scene \in SoundRead : \E level \in SteadyRead :
       \E junk \in JunkRead : loop(e, scene, level, junk) /\ clock' <= CounterEnd
  \/ hang
  \/ watchdogReset

SpecCounter == Init /\ [][NextCounter]_vars

\* C21: adcReadCounter goes up by one in every call of loop() in which Job 1
\* runs (the clock read is at least JOB1CYCLE past timeMark1) and in no other
\* step; the only other change it sees is the restart, which sets it to 0
\* together with the clock and the marks.  Up to the first wrap of the clock
\* adcReadCounter x JOB1CYCLE <= timeMark1 <= millis() in every state, and,
\* once setup() has drawn the display, the time field is the placeholder or
\* the readout of a number of minutes that have passed since the start.
C21_CounterBehindClock ==
  /\ [][LoopCall => adcReadCounter' = adcReadCounter
                      + (IF clock - timeMark1 >= JOB1CYCLE THEN 1 ELSE 0)]_vars
  /\ [][LoopCall => (adcReadCounter' # adcReadCounter <=> 1 \in Ran(jobTrace'))]_vars
  /\ [][adcReadCounter' # adcReadCounter =>
          \/ LoopCall
          \/ pc = "hung" /\ pc' = "setup" /\ adcReadCounter' = 0 /\ clock' = 0]_vars
  /\ [](adcReadCounter * JOB1CYCLE <= timeMark1 /\ timeMark1 <= clock)
  /\ [](pc # "setup" =>
          \/ lcd.time = StaticTime
          \/ \E mins \in 0 .. clock \div 60000 : lcd.time = Readout(mins))

\* The third acquisition cycle has been made, later than 15 minutes after the
\* start, and the display shows 15 minutes.
C21_Witness ==
  /\ adcReadCounter = CyclesFollowed
  /\ timeMark1 > CyclesFollowed * JOB1CYCLE
  /\ lcd.time = Readout(CyclesFollowed * 5)

(***************************************************************************)
(* calcCRC8 as a check on a value string: after the checksum of a string   *)
(* has been computed, calcCRC8 is called once more, on the string with one *)
(* bit of one character changed, or on the string with its checksum        *)
(* written behind it as one more byte.                                     *)
(***************************************************************************)
\* byte with bit number bit (0 .. 7) changed.
FlipBit(byte, bit) ==
  IF (byte \div 2 ^ bit) % 2 = 1 THEN byte - 2 ^ bit ELSE byte + 2 ^ bit

\* The memory behind the terminator of the string at the start of mem.
Behind(mem) == SubSeq(mem, Len(CString(mem)) + 2, Len(mem))

\* calcCRC8 of the string of crcIn with bit number bit of character i changed;
\* the changed character is not NUL.
callCalcCRC8Damaged(i, bit) ==
  /\ pc = "returned"
  /\ i \in 1 .. Len(CString(crcIn))
  /\ FlipBit(crcIn[i], bit) # NUL
  /\ LET mem == [crcIn EXCEPT ![i] = FlipBit(@, bit)]
     IN  crcChk' = [mem |-> mem, crc |-> calcCRC8(mem)]
  /\ pc' = "damaged"
  /\ UNCHANGED <<clock, timeMark1, timeMark2, timeMark3, timeMark9, hbStatus, blStatus,
                 adcReadCounter, wdt, dataVars, histVars, win, adcIn, adcOut, crcIn,
                 crcOut, sent, bVoltage>>

\* calcCRC8 of the string of crcIn followed by the byte crcOut.
callCalcCRC8Sealed ==
  /\ pc = "returned"
  /\ LET mem == CString(crcIn) \o <<crcOut, NUL>> \o Behind(crcIn)
     IN  crcChk' = [mem |-> mem, crc |-> calcCRC8(mem)]
  /\ pc' = "sealed"
  /\ UNCHANGED <<clock, timeMark1, timeMark2, timeMark3, timeMark9, hbStatus, blStatus,
                 adcReadCounter, wdt, dataVars, histVars, win, adcIn, adcOut, crcIn,
                 crcOut, sent, bVoltage>>

NextCheck ==
  \/ callCalcCRC8
  \/ \E i \in 1 .. MaxStrLen : \E bit \in 0 .. 7 : callCalcCRC8Damaged(i, bit)
  \/ callCalcCRC8Sealed

SpecCheck == InitCRC /\ [][NextCheck]_vars

\* The strings s and t have the same length and differ in one bit of one
\* character.
OneBitApart(s, t) ==
  /\ Len(s) = Len(t)
  /\ \E i \in 1 .. Len(s) :
       /\ Xor(s[i], t[i]) \in {2 ^ bit : bit \in 0 .. 7}
       /\ \A k \in 1 .. Len(s) : k # i => s[k] = t[k]

\* C22: for a NUL-free string S and a NUL-free string S' that differs from S
\* in a single bit of one character, calcCRC8(S') is not calcCRC8(S); and
\* calcCRC8 of S followed by the byte calcCRC8(S) is 0.
C22_DetectsCorruption ==
  /\ (pc = "damaged" /\ OneBitApart(CString(crcIn), CString(crcChk.mem)))
       => crcChk.crc # crcOut
  /\ pc = "damaged" => OneBitApart(CString(crcIn), CString(crcChk.mem))
  /\ pc = "sealed" => crcChk.crc = 0

\* The top bit of the last character of a string of MaxStrLen characters has
\* been changed, and the checksum has changed with it.
C22_Witness ==
  /\ pc = "damaged"
  /\ Len(CString(crcIn)) = MaxStrLen
  /\ Xor(crcIn[MaxStrLen], crcChk.mem[MaxStrLen]) = 128
  /\ crcOut # crcChk.crc

====
